---- MODULE Spec2Model ----
(***************************************************************************)
(* A model of index.py: the start-up check of API_TOKEN, the three         *)
(* memoised entity look-ups (get_star_wars_character,                      *)
(* get_star_wars_planet, get_pokemon), the translator (interpret_problem), *)
(* the problem solver (solve_problem) and the timed challenge loop         *)
(* (run_challenge).                                                        *)
(*                                                                         *)
(* Names are modelled as small records: [t |-> "str", id |-> i] is the     *)
(* i-th string, [t |-> "int", ...] a JSON number used as a name and        *)
(* [t |-> "list", ...] a JSON array used as a name (unhashable in Python). *)
(* Upstream numeric fields are modelled by their textual form: a plain     *)
(* numeric string, the literal "unknown", a comma-grouped numeric string   *)
(* or JSON null.  All floats that occur are integral, so Int carries them. *)
(***************************************************************************)
EXTENDS Integers, Sequences, FiniteSets, TLC

---------------------------------------------------------------------------
(* Bounds of the model                                                     *)

NumNames == 2
\* requests after which the model makes no further direct resolve call
MaxStoreRequests == 2
\* requests after which the model starts no further solve
MaxRequests == 3
\* problems the challenge service hands out
MaxProblems == 3
\* seconds after which the model lets no further call take time
MaxElapsed == 177
\* lines a pretty-printed JSON payload is made of
NumPieces == 2

---------------------------------------------------------------------------
(* Program constants                                                       *)

\* @lru_cache(maxsize=128)
maxsize == 128

\* while time.time() - start_time < 175:  # 5 s before the end
StopAfter == 175

Kinds == {"character", "planet", "pokemon"}

---------------------------------------------------------------------------
(* Names and upstream payloads                                             *)

Str(i) == [t |-> "str", id |-> i]
IntName == [t |-> "int", id |-> 0]
ListName == [t |-> "list", id |-> 0]

StrNames == {Str(i) : i \in 1..NumNames}
\* what lru_cache can hash: everything but a list (or a dict)
Hashable(n) == n.t # "list"
Keys == StrNames \cup {IntName}

\* names resolved earlier in the session that the model never asks for again
Filler(i) == [t |-> "str", id |-> 1000 + i]

\* the textual forms of an upstream numeric field
Num(v) == [form |-> "num", v |-> v]
Unknown == [form |-> "unknown", v |-> 0]
Comma(v) == [form |-> "comma", v |-> v]
Null == [form |-> "null", v |-> 0]

\* the value returned for "no entity": Python's None
None == [none |-> TRUE]
IsEntity(r) == r # None

\* raised exceptions are values of the model: [ok |-> FALSE]
Raise == [ok |-> FALSE, v |-> 0]
Ok(v) == [ok |-> TRUE, v |-> v]

\* float(x): a plain numeric string parses; "unknown" and "1,000" raise
\* ValueError, None raises TypeError
float(x) == IF x.form = "num" THEN Ok(x.v) ELSE Raise

\* x.replace(',', ''): "1,000" becomes "1000"; None has no replace()
replace_comma(x) ==
    CASE x.form = "comma" -> Ok(Num(x.v))
      [] x.form = "null" -> Raise
      [] OTHER -> Ok(x)

\* float(x) if x != 'unknown' else 0
float_or_zero(x) == IF x # Unknown THEN float(x) ELSE Ok(0)

\* float(x.replace(',', '')) if x != 'unknown' else 0
float_mass(x) ==
    IF x # Unknown
    THEN IF replace_comma(x).ok THEN float(replace_comma(x).v) ELSE Raise
    ELSE Ok(0)

\* float(x) if x else 0: None and the number 0 are falsy, a non-empty
\* string is truthy
float_if_truthy(x) ==
    IF x.form = "null" \/ (x.form = "num" /\ x.v = 0) THEN Ok(0) ELSE float(x)

---------------------------------------------------------------------------
(* What the remote data sources answer.  status "error" is a transport     *)
(* failure, a timeout or a body that is not JSON; "malformed" is JSON      *)
(* without the key the code indexes; "noresults" is an empty result list.  *)

CharAnswer(status, height, mass, hw) ==
    [status |-> status, height |-> height, mass |-> mass, hw |-> hw]
PlanetAnswer(status, f) ==
    [status |-> status, rotation_period |-> f, orbital_period |-> f,
     diameter |-> f, surface_water |-> f, population |-> f]
PokemonAnswer(status, be, height, weight) ==
    [status |-> status, base_experience |-> be, height |-> height,
     weight |-> weight]

CharAnswers ==
    {CharAnswer("error", Null, Null, "absent"),
     CharAnswer("malformed", Null, Null, "absent"),
     CharAnswer("noresults", Null, Null, "absent"),
     CharAnswer("match", Num(2), Num(3), "ok"),
     CharAnswer("match", Unknown, Comma(1000), "absent"),
     CharAnswer("match", Comma(1000), Num(3), "ok")}
PlanetAnswers ==
    {PlanetAnswer("error", Null), PlanetAnswer("malformed", Null),
     PlanetAnswer("noresults", Null),
     PlanetAnswer("match", Num(2)), PlanetAnswer("match", Unknown),
     PlanetAnswer("match", Comma(1000))}
PokemonAnswers ==
    {PokemonAnswer("error", Null, Null, Null),
     PokemonAnswer("malformed", Null, Null, Null),
     PokemonAnswer("match", Num(2), Num(3), Num(4)),
     PokemonAnswer("match", Null, Num(3), Num(5)),
     PokemonAnswer("match", Unknown, Num(3), Num(4))}

Answers(kind) ==
    CASE kind = "character" -> CharAnswers
      [] kind = "planet" -> PlanetAnswers
      [] kind = "pokemon" -> PokemonAnswers

\* the fields each look-up converts to a number
NumericAttrs(kind) ==
    CASE kind = "character" -> {"height", "mass"}
      [] kind = "planet" -> {"rotation_period", "orbital_period", "diameter",
                             "surface_water", "population"}
      [] kind = "pokemon" -> {"base_experience", "height", "weight"}

\* the upstream delivered a first match (and, for a character with a
\* homeworld, the homeworld it links to)
Delivered(kind, a) ==
    a.status = "match" /\ (kind = "character" => a.hw # "error")

\* the numeric fields of the first match as the upstream sent them
RawFields(kind, a) == [f \in NumericAttrs(kind) |-> a[f]]
NoRaw == <<>>

\* the upstream answers with a first match whose fields all convert
Usable(kind, a) ==
    CASE kind = "character" ->
            /\ a.status = "match" /\ a.hw # "error"
            /\ float_or_zero(a.height).ok /\ float_mass(a.mass).ok
      [] kind = "planet" ->
            /\ a.status = "match"
            /\ float_or_zero(a.rotation_period).ok
            /\ float_or_zero(a.orbital_period).ok
            /\ float_or_zero(a.diameter).ok
            /\ float_or_zero(a.surface_water).ok
            /\ float_or_zero(a.population).ok
      [] kind = "pokemon" ->
            /\ a.status = "match"
            /\ float_if_truthy(a.base_experience).ok
            /\ float(a.height).ok /\ float(a.weight).ok

---------------------------------------------------------------------------
(* The three look-up functions, without their decorator.  Each returns     *)
(* [ret |-> the dict or None, reqs |-> the HTTP requests it issued].       *)

Result(ret, reqs) == [ret |-> ret, reqs |-> reqs]

get_star_wars_character(name, a) ==
    IF a.status = "error" THEN Result(None, 1)
    ELSE IF a.status # "match" THEN Result(None, 1)
    ELSE IF a.hw = "error" THEN Result(None, 2)
    ELSE LET reqs == IF a.hw = "absent" THEN 1 ELSE 2
             homeworld_name == IF a.hw = "ok" THEN "homeworld" ELSE "None"
             height == float_or_zero(a.height)
             mass == float_mass(a.mass)
         IN  IF height.ok /\ mass.ok
             THEN Result([name |-> name, height |-> height.v,
                          mass |-> mass.v, homeworld |-> homeworld_name],
                         reqs)
             ELSE Result(None, reqs)

get_star_wars_planet(name, a) ==
    IF a.status # "match" THEN Result(None, 1)
    ELSE LET rotation_period == float_or_zero(a.rotation_period)
             orbital_period == float_or_zero(a.orbital_period)
             diameter == float_or_zero(a.diameter)
             surface_water == float_or_zero(a.surface_water)
             population == float_or_zero(a.population)
         IN  IF /\ rotation_period.ok /\ orbital_period.ok /\ diameter.ok
                /\ surface_water.ok /\ population.ok
             THEN Result([name |-> name,
                          rotation_period |-> rotation_period.v,
                          orbital_period |-> orbital_period.v,
                          diameter |-> diameter.v,
                          surface_water |-> surface_water.v,
                          population |-> population.v], 1)
             ELSE Result(None, 1)

get_pokemon(name, a) ==
    \* name.lower() raises for a name that is not a string, before any request
    IF name.t # "str" THEN Result(None, 0)
    ELSE IF a.status # "match" THEN Result(None, 1)
    ELSE LET base_experience == float_if_truthy(a.base_experience)
             height == float(a.height)
             weight == float(a.weight)
         IN  IF base_experience.ok /\ height.ok /\ weight.ok
             THEN Result([name |-> name,
                          base_experience |-> base_experience.v,
                          height |-> height.v, weight |-> weight.v], 1)
             ELSE Result(None, 1)

user_function(kind, name, a) ==
    CASE kind = "character" -> get_star_wars_character(name, a)
      [] kind = "planet" -> get_star_wars_planet(name, a)
      [] kind = "pokemon" -> get_pokemon(name, a)

---------------------------------------------------------------------------
(* State                                                                   *)

VARIABLES
    cache,      \* per kind, lru_cache's entries [key, val], least recent first
    requests,   \* HTTP requests issued to the entity sources (instrumentation)
    lastRes,    \* per kind and key, what its latest look-up returned
    used,       \* per kind, the keys looked up, in the order of their latest use
    calls,      \* the look-ups made by the latest operation, in order
    response,   \* what the language service replied in the latest solve
    interpretation, \* what interpret_problem returned in the latest solve
    entities,   \* the bindings the latest solve_problem built
    out,        \* how the latest solve_problem ended
    TOKEN,      \* os.getenv("API_TOKEN") after load_dotenv()
    pc,         \* where the program is
    elapsed,    \* time.time() - start_time, in whole seconds
    problems_attempted,
    problems_solved,
    current_problem,
    started,    \* the ids of the problems handed to solve_problem, in order
    submissions, \* the {problem_id, answer} bodies posted, in order
    succeeded,  \* for each submission, whether solve_problem gave a number
    checks,     \* evaluations of the while condition (instrumentation)
    exit,       \* why the loop ended
    report      \* what the final statistics block printed

storeVars == <<cache, requests, lastRes, used, calls>>
solveVars == <<response, interpretation, entities, out>>
runVars == <<TOKEN, pc, elapsed, problems_attempted, problems_solved,
             current_problem, started, submissions, succeeded, checks, exit,
             report>>
vars == <<storeVars, solveVars, runVars>>

\* a key that was never looked up
Never == [never |-> TRUE]

\* no problem received yet
NoProblem == [id |-> 0, problem |-> 0]
\* a JSON body without the keys 'problem' and 'id', e.g. {"error": "..."}
NotAProblem == [id |-> -1, problem |-> -1]

\* what the environment may hold for API_TOKEN: a token, the empty string,
\* or nothing (getenv returns None)
Tokens == {"secret", "", "None"}
\* not TOKEN
not(tok) == tok \in {"", "None"}

---------------------------------------------------------------------------
(* functools.lru_cache(maxsize=128) around a look-up function              *)

\* the position of key in c, 0 when it is absent (keys are unique)
IndexOf(c, key) ==
    LET I == {i \in 1..Len(c) : c[i].key = key}
    IN  IF I = {} THEN 0 ELSE CHOOSE i \in I : TRUE

Without(c, i) == SubSeq(c, 1, i - 1) \o SubSeq(c, i + 1, Len(c))

\* a hit that leaves the entry where it is (first in, first out)
cache_hit_keeps_place(c, i) == c

\* a hit moves the entry to the most recently used end
cache_hit(c, i) == Append(Without(c, i), c[i])

\* a full cache that drops its newest entry instead of its oldest
cache_insert_drops_newest(c, key, val) ==
    IF Len(c) >= maxsize
    THEN Append(SubSeq(c, 1, Len(c) - 1), [key |-> key, val |-> val])
    ELSE Append(c, [key |-> key, val |-> val])

\* a miss stores the result, None included; a full cache first drops its
\* oldest entry
cache_insert(c, key, val) ==
    IF Len(c) >= maxsize
    THEN Append(Tail(c), [key |-> key, val |-> val])
    ELSE Append(c, [key |-> key, val |-> val])

Keyset(c) == {c[i].key : i \in 1..Len(c)}

\* the keys of u used after key's latest use
UsedAfter(u, key) ==
    LET I == {i \in 1..Len(u) : u[i] = key}
    IN  IF I = {} THEN {}
        ELSE {u[j] : j \in ((CHOOSE i \in I : TRUE) + 1)..Len(u)}

\* the key of K whose latest use is the oldest
OldestOf(u, K) ==
    LET I == {i \in 1..Len(u) : u[i] \in K}
    IN  IF I = {} THEN None
        ELSE u[CHOOSE i \in I : \A j \in I : i <= j]

Touch(u, key) == Append(SelectSeq(u, LAMBDA k : k # key), key)

\* One call of the decorated function of `kind` in store state S, the
\* upstream answering `a` if asked.  Returns the new store state and the
\* record of the call.
lru_call(S, kind, key, a) ==
    LET c == S.cache[kind]
        i == IndexOf(c, key)
        r == IF i > 0 THEN Result(c[i].val, 0) ELSE user_function(kind, key, a)
        c2 == IF i > 0 THEN cache_hit(c, i) ELSE cache_insert(c, key, r.ret)
        rec == [kind |-> kind, key |-> key, usable |-> Usable(kind, a), ret |-> r.ret,
                hit |-> i > 0, reqs |-> r.reqs,
                raw |-> IF r.reqs > 0 /\ Delivered(kind, a)
                        THEN RawFields(kind, a) ELSE NoRaw,
                prev |-> IF key \in DOMAIN S.lastRes[kind]
                         THEN S.lastRes[kind][key] ELSE Never,
                others |-> Cardinality(UsedAfter(S.used[kind], key)),
                full |-> Len(c) >= maxsize,
                oldest |-> OldestOf(S.used[kind], Keyset(c)),
                evicted |-> Keyset(c) \ Keyset(c2),
                size |-> Len(c2)]
    IN  [cache |-> [S.cache EXCEPT ![kind] = c2],
         requests |-> S.requests + r.reqs,
         lastRes |-> [S.lastRes EXCEPT ![kind] =
                         [k \in DOMAIN @ \cup {key} |->
                             IF k = key THEN r.ret ELSE @[k]]],
         used |-> [S.used EXCEPT ![kind] = Touch(@, key)],
         calls |-> Append(S.calls, rec)]

Store == [cache |-> cache, requests |-> requests, lastRes |-> lastRes,
          used |-> used, calls |-> <<>>]

SetStore(S) ==
    /\ cache' = S.cache
    /\ requests' = S.requests
    /\ lastRes' = S.lastRes
    /\ used' = S.used
    /\ calls' = S.calls

---------------------------------------------------------------------------
(* Expressions and their evaluation: eval(operation, {"__builtins__": {}}, *)
(* namespace) followed by round(result, 10).  Expressions are syntax       *)
(* trees; numbers are exact fractions n/d in lowest terms with d > 0.      *)

Alias(kind, i) == [kind |-> kind, i |-> i]
Attr(kind, i, attr) == [op |-> "attr", alias |-> Alias(kind, i), attr |-> attr]
Lit(v) == [op |-> "lit", v |-> v]
Bin(f, l, r) == [op |-> "bin", f |-> f, l |-> l, r |-> r]
\* a free name that is no alias, e.g. abs
Name(id) == [op |-> "name", id |-> id]
\* <e>.<attr> where e is itself an expression, e.g. character1.mass.real
GetAttr(e, attr) == [op |-> "getattr", e |-> e, attr |-> attr]
\* <fn>(<args>)
Call(fn, args) == [op |-> "call", fn |-> fn, args |-> args]
\* text that is not a Python expression, e.g. "character1.mass *"
Malformed == [op |-> "malformed"]

RECURSIVE Gcd(_, _)
Gcd(a, b) == IF b = 0 THEN a ELSE Gcd(b, a % b)
Abs(a) == IF a < 0 THEN -a ELSE a

Frac(n, d) ==
    LET g == Gcd(Abs(n), Abs(d))
        sgn == IF d < 0 THEN -1 ELSE 1
    IN  [ty |-> "num", n |-> sgn * (n \div g), d |-> sgn * (d \div g)]
StrVal == [ty |-> "str", n |-> 0, d |-> 1]
NoneVal == [ty |-> "none", n |-> 0, d |-> 1]

\* getattr(entity, attr) on an Entity built by setattr from the dict
attr_value(data, attr) ==
    CASE attr = "name" -> StrVal
      [] attr = "homeworld" ->
            IF data[attr] = "None" THEN NoneVal ELSE StrVal
      [] OTHER -> Frac(data[attr], 1)

\* Python's binary arithmetic on the values that can occur.  (A string
\* times an int literal is again a string, which round() rejects like the
\* TypeError modelled here.)
arith(f, x, y) ==
    IF x.ty = "num" /\ y.ty = "num"
    THEN CASE f = "+" -> Ok(Frac(x.n * y.d + y.n * x.d, x.d * y.d))
           [] f = "-" -> Ok(Frac(x.n * y.d - y.n * x.d, x.d * y.d))
           [] f = "*" -> Ok(Frac(x.n * y.n, x.d * y.d))
           [] f = "/" -> IF y.n = 0 THEN Raise      \* ZeroDivisionError
                         ELSE Ok(Frac(x.n * y.d, x.d * y.n))
    ELSE IF x.ty = "str" /\ y.ty = "str" /\ f = "+" THEN Ok(StrVal)
    ELSE Raise                                      \* TypeError

\* an evaluator that reads an unbound alias as 0
lookup_defaulting(namespace, alias, attr) ==
    IF alias \notin DOMAIN namespace THEN Ok(Frac(0, 1))
    ELSE IF attr \notin DOMAIN namespace[alias] THEN Raise
    ELSE Ok(attr_value(namespace[alias], attr))

\* alias.attr in the namespace eval is given
lookup(namespace, alias, attr) ==
    IF alias \notin DOMAIN namespace THEN Raise             \* NameError
    ELSE IF attr \notin DOMAIN namespace[alias] THEN Raise  \* AttributeError
    ELSE Ok(attr_value(namespace[alias], attr))

\* the bound method x.conjugate of a number x (int and float both have it)
MethodVal(m, x) == [ty |-> m, n |-> x.n, d |-> x.d]
Methods == {"conjugate"}

\* x.attr for a value x: eval's empty __builtins__ does not restrict the
\* attributes of the values an expression reaches
getattr_value(x, attr) ==
    IF x.ty = "num"
    THEN CASE attr = "real" -> Ok(x)
           [] attr = "imag" -> Ok(Frac(0, 1))
           [] attr \in Methods -> Ok(MethodVal(attr, x))
           [] OTHER -> Raise                        \* AttributeError
    ELSE Raise                                      \* AttributeError

Callable(f) == f.ty \in Methods

\* f(*args) for a value f
call_value(f, args) ==
    IF ~Callable(f) THEN Raise                      \* TypeError: not callable
    ELSE IF Len(args) # 0 THEN Raise                \* TypeError: arguments
    ELSE Ok(Frac(f.n, f.d))                         \* x.conjugate() == x

RECURSIVE eval(_, _)
eval(e, namespace) ==
    CASE e.op = "lit" -> Ok(Frac(e.v, 1))
      [] e.op = "attr" -> lookup(namespace, e.alias, e.attr)
      [] e.op = "bin" ->
            LET l == eval(e.l, namespace)
            IN  IF ~l.ok THEN Raise
                ELSE LET r == eval(e.r, namespace)
                     IN  IF ~r.ok THEN Raise ELSE arith(e.f, l.v, r.v)
      [] e.op = "name" -> Raise         \* NameError: no builtins, no alias
      [] e.op = "getattr" ->
            LET x == eval(e.e, namespace)
            IN  IF ~x.ok THEN Raise ELSE getattr_value(x.v, e.attr)
      [] e.op = "call" ->
            LET f == eval(e.fn, namespace)
                args == [j \in DOMAIN e.args |-> eval(e.args[j], namespace)]
            IN  IF ~f.ok THEN Raise
                ELSE IF \E j \in DOMAIN args : ~args[j].ok THEN Raise
                ELSE call_value(f.v, [j \in DOMAIN args |-> args[j].v])
      [] e.op = "malformed" -> Raise    \* SyntaxError when compiling
      [] OTHER -> Raise

\* whether evaluating e calls a callable object (instrumentation)
RECURSIVE invokes(_, _)
invokes(e, namespace) ==
    CASE e.op = "bin" ->
            \/ invokes(e.l, namespace)
            \/ eval(e.l, namespace).ok /\ invokes(e.r, namespace)
      [] e.op = "getattr" -> invokes(e.e, namespace)
      [] e.op = "call" ->
            \/ invokes(e.fn, namespace)
            \/ /\ eval(e.fn, namespace).ok
               /\ \/ \E j \in DOMAIN e.args :
                        /\ \A h \in 1..(j - 1) : eval(e.args[h], namespace).ok
                        /\ invokes(e.args[j], namespace)
                  \/ /\ \A j \in DOMAIN e.args : eval(e.args[j], namespace).ok
                     /\ Callable(eval(e.fn, namespace).v)
      [] OTHER -> FALSE

\* round(result, 10): defined on numbers only; the value is kept as the
\* exact fraction it rounds
round10(x) == IF x.ty = "num" THEN Ok(x) ELSE Raise

\* the aliases an expression mentions
RECURSIVE AliasesOf(_)
AliasesOf(e) ==
    CASE e.op = "attr" -> {e.alias}
      [] e.op = "bin" -> AliasesOf(e.l) \cup AliasesOf(e.r)
      [] e.op = "getattr" -> AliasesOf(e.e)
      [] e.op = "call" ->
            AliasesOf(e.fn) \cup
            UNION {AliasesOf(e.args[j]) : j \in DOMAIN e.args}
      [] OTHER -> {}

---------------------------------------------------------------------------
(* What interpret_problem hands to solve_problem: None on any exception,   *)
(* otherwise whatever JSON value the language service's text parses to.    *)
(*   t = "none"    interpret_problem returned None                         *)
(*   t = "falsy"   {} or [] or 0 or "" or false or null                    *)
(*   t = "array"   a non-empty JSON array (any truthy non-object)          *)
(*   t = "object"  a non-empty JSON object                                 *)
(* A field of the object is missing, null, a number or a list of names.    *)

Missing == [t |-> "missing", items |-> <<>>]
JNull == [t |-> "null", items |-> <<>>]
JNumber == [t |-> "number", items |-> <<>>]
List(items) == [t |-> "list", items |-> items]
NoOperation == [op |-> "missing"]

Object(characters, planets, pokemon, operation) ==
    [t |-> "object", characters |-> characters, planets |-> planets,
     pokemon |-> pokemon, operation |-> operation]
NonObject(t) ==
    [Object(Missing, Missing, Missing, NoOperation) EXCEPT !.t = t]

NoEntities == [a \in {} |-> None]

Failure == [t |-> "failure", v |-> Frac(0, 1)]
Raised == [t |-> "raise", v |-> Frac(0, 1)]
Number(v) == [t |-> "num", v |-> v]

\* for i, name in enumerate(items, 1): data = get_<kind>(name);
\*     if data: entities[f'<kind>{i}'] = data
\* from position i on.  The look-up of an unhashable name raises TypeError
\* in lru_cache, outside the look-up's own try block.
\* Op(v) with v evaluated once
Eager(v, Op(_)) == CHOOSE r \in {Op(x) : x \in {v}} : TRUE

\* bindings numbered from 0, as a bare enumerate(items) would
bind_from_zero(ents, kind, i, data) ==
    IF IsEntity(data)
    THEN [a \in DOMAIN ents \cup {Alias(kind, i - 1)} |->
             IF a = Alias(kind, i - 1) THEN data ELSE ents[a]]
    ELSE ents

\* if data: entities[f'<kind>{i}'] = data
bind(ents, kind, i, data) ==
    IF IsEntity(data)
    THEN [a \in DOMAIN ents \cup {Alias(kind, i)} |->
             IF a = Alias(kind, i) THEN data ELSE ents[a]]
    ELSE ents

RECURSIVE resolve_names(_, _, _, _, _, _)
resolve_names(S, ents, kind, items, i, up) ==
    IF i > Len(items) THEN [S |-> S, entities |-> ents, raised |-> FALSE]
    ELSE IF ~Hashable(items[i])
    THEN [S |-> S, entities |-> ents, raised |-> TRUE]
    ELSE Eager(lru_call(S, kind, items[i], up[kind][items[i]]), LAMBDA S2 :
           Eager(bind(ents, kind, i, S2.calls[Len(S2.calls)].ret),
                 LAMBDA ents2 :
                     resolve_names(S2, ents2, kind, items, i + 1, up)))

\* one of the three loops: interp.get(field, []) and its enumeration
resolve_field(R, kind, field, up) ==
    IF R.raised THEN R
    ELSE CASE field.t = "missing" ->
                R
           [] field.t = "list" ->
                resolve_names(R.S, R.entities, kind, field.items, 1, up)
           [] OTHER ->      \* enumerate(None), enumerate(5): TypeError
                [R EXCEPT !.raised = TRUE]

\* an evaluation step whose try block lets a ZeroDivisionError or any other
\* fault of eval through
evaluate_unguarded(interp, ents) ==
    IF interp.operation = NoOperation THEN Failure
    ELSE LET result == eval(interp.operation, ents)
         IN  IF ~result.ok THEN Raised
             ELSE IF ~round10(result.v).ok THEN Failure
             ELSE Number(round10(result.v).v)

\* step 3 of solve_problem: the try block around eval and round
evaluate(interp, ents) ==
    IF interp.operation = NoOperation THEN Failure      \* KeyError
    ELSE LET result == eval(interp.operation, ents)
         IN  IF ~result.ok THEN Failure
             ELSE IF ~round10(result.v).ok THEN Failure
             ELSE Number(round10(result.v).v)

\* solve_problem(problem_text) when interpret_problem returns
\* `interp` and the entity sources answer as `up` says.  Returns the
\* new store state, the bindings built and the outcome: a number, None
\* (Failure) or an exception that leaves solve_problem.
solve_problem(S, interp, up) ==
    IF interp.t \in {"none", "falsy"}
    THEN [S |-> S, entities |-> NoEntities, out |-> Failure]
    ELSE IF interp.t # "object"         \* no .get(): AttributeError
    THEN [S |-> S, entities |-> NoEntities, out |-> Raised]
    ELSE LET R0 == [S |-> S, entities |-> NoEntities, raised |-> FALSE]
         IN  Eager(resolve_field(R0, "character", interp.characters, up),
               LAMBDA R1 :
             Eager(resolve_field(R1, "planet", interp.planets, up),
               LAMBDA R2 :
             Eager(resolve_field(R2, "pokemon", interp.pokemon, up),
               LAMBDA R3 :
               [S |-> R3.S, entities |-> R3.entities,
                out |-> IF R3.raised THEN Raised
                        ELSE evaluate(interp, R3.entities)])))

---------------------------------------------------------------------------
(* The inputs of the solver: what the translator returns and how the       *)
(* entity sources answer while one problem is solved                       *)

n1 == Str(1)
n2 == Str(2)

\* {"characters": ["n1"], "planets": [], "pokemon": ["n1"],
\*  "operation": "character1.mass * pokemon1.base_experience"}
Scenario1 ==
    Object(List(<<n1>>), List(<<>>), List(<<n1>>),
           Bin("*", Attr("character", 1, "mass"),
                    Attr("pokemon", 1, "base_experience")))

Interpretations ==
    {NonObject("none"), NonObject("falsy"), NonObject("array"),
     Scenario1,
     Object(List(<<n1, n2>>), Missing, Missing,
            Bin("+", Attr("character", 2, "height"), Lit(1))),
     Object(List(<<n1, n2>>), Missing, List(<<>>),
            Bin("-", Attr("character", 1, "mass"),
                     Attr("character", 2, "mass"))),
     Object(List(<<n2>>), List(<<n1>>), Missing,
            Bin("/", Attr("planet", 1, "diameter"),
                     Attr("character", 1, "height"))),
     Object(List(<<n1>>), Missing, List(<<n2, n1>>),
            Bin("*", Attr("pokemon", 2, "weight"), Lit(3))),
     Object(List(<<n2>>), Missing, Missing,
            Bin("/", Attr("character", 1, "mass"), Lit(2))),
     Object(JNull, Missing, Missing, Lit(1)),
     Object(List(<<n1>>), JNumber, Missing, Attr("character", 1, "mass")),
     Object(List(<<IntName>>), Missing, List(<<IntName, ListName>>), Lit(1)),
     Object(List(<<n1>>), Missing, Missing, NoOperation),
     Object(List(<<n1>>), Missing, Missing,
            Attr("character", 1, "homeworld")),
     \* "character1.mass.real", "character1.mass.conjugate()",
     \* "abs(character1.mass)", "character1.weight", "character1.mass *"
     Object(List(<<n1>>), Missing, Missing,
            GetAttr(Attr("character", 1, "mass"), "real")),
     Object(List(<<n1>>), Missing, Missing,
            Call(GetAttr(Attr("character", 1, "mass"), "conjugate"), <<>>)),
     Object(List(<<n1>>), Missing, Missing,
            Call(Name("abs"), <<Attr("character", 1, "mass")>>)),
     Object(List(<<n1>>), Missing, Missing, Attr("character", 1, "weight")),
     Object(List(<<n1>>), Missing, Missing, Malformed)}

\* an answer of the kind's source that resolves
GoodAnswer(kind) ==
    CASE kind = "character" -> CharAnswer("match", Num(2), Num(3), "ok")
      [] kind = "planet" -> PlanetAnswer("match", Num(2))
      [] kind = "pokemon" -> PokemonAnswer("match", Num(2), Num(3), Num(4))

BadAnswer(kind) ==
    CASE kind = "character" -> CharAnswer("error", Null, Null, "absent")
      [] kind = "planet" -> PlanetAnswer("noresults", Null)
      [] kind = "pokemon" -> PokemonAnswer("error", Null, Null, Null)

OtherAnswer(kind) ==
    CASE kind = "character" -> CharAnswer("match", Unknown, Comma(1000), "absent")
      [] kind = "planet" -> PlanetAnswer("match", Unknown)
      [] kind = "pokemon" -> PokemonAnswer("match", Null, Num(3), Num(5))

\* the sources are down for the names of D and answer the others
Upstream(D, good) ==
    [kind \in Kinds |-> [key \in Keys |->
        IF key \in D THEN BadAnswer(kind)
        ELSE IF good THEN GoodAnswer(kind) ELSE OtherAnswer(kind)]]

\* (only n1 and n2 are listed by the interpretations above)
Upstreams == {Upstream(D, good) : D \in SUBSET {n1, n2}, good \in BOOLEAN}

---------------------------------------------------------------------------
(* interpret_problem: the text of the language service's first choice is   *)
(* stripped, unwrapped from a Markdown fence and parsed as JSON.  A text    *)
(* is a sequence of lines (what split('\n') gives), a line a sequence of   *)
(* tokens: the fence ```, the language tag json, or one of the NumPieces    *)
(* consecutive pieces of a JSON document.  A document is named by the       *)
(* value it denotes.                                                        *)

Fence == [tok |-> "fence", doc |-> NonObject("none"), k |-> 0]
Tag == [tok |-> "json", doc |-> NonObject("none"), k |-> 0]
Piece(doc, k) == [tok |-> "piece", doc |-> doc, k |-> k]
Pieces(doc) == [k \in 1..NumPieces |-> Piece(doc, k)]
Empty == << <<>> >>

\* str.strip(): leading and trailing blank lines go
strip(text) ==
    LET inked == {j \in DOMAIN text : text[j] # <<>>}
        first == CHOOSE j \in inked : \A h \in inked : j <= h
        last == CHOOSE j \in inked : \A h \in inked : h <= j
    IN  IF inked = {} THEN Empty ELSE SubSeq(text, first, last)

\* str.startswith(tok)
startswith(text, tok) == text[1] # <<>> /\ text[1][1] = tok

\* '\n'.join(lines[1:-1])
join_inner(lines) ==
    IF Len(lines) <= 2 THEN Empty ELSE SubSeq(lines, 2, Len(lines) - 1)

\* content[4:] of a text that starts with json
drop_tag(text) == [text EXCEPT ![1] = Tail(@)]

RECURSIVE Flatten(_)
Flatten(text) == IF text = <<>> THEN <<>> ELSE Head(text) \o Flatten(Tail(text))

\* json.loads(text): the value of the document when the text is exactly
\* its pieces in order, JSONDecodeError otherwise
json_loads(text) ==
    LET toks == Flatten(text)
    IN  IF toks # <<>> /\ toks[1].tok = "piece" /\ toks = Pieces(toks[1].doc)
        THEN Ok(toks[1].doc)
        ELSE Raise

\* the reply of POST /chat_completion: status "error" is a failed request,
\* a body that is not JSON or one without choices[0].message.content
Reply(status, text) == [status |-> status, content |-> text]
NoReply == Reply("none", Empty)

interpret_problem(resp) ==
    IF resp.status # "ok" THEN NonObject("none")
    ELSE LET content == strip(resp.content)
             inner == join_inner(content)
             unfenced == IF startswith(content, Fence)
                         THEN IF startswith(inner, Tag)
                              THEN drop_tag(inner) ELSE inner
                         ELSE content
             parsed == json_loads(strip(unfenced))
         IN  IF parsed.ok THEN parsed.v ELSE NonObject("none")

\* the texts the service may send: the tokens `toks` broken into lines
\* after the positions of B
LineOf(toks, B, j) ==
    LET nth(h) == CHOOSE b \in B : Cardinality({x \in B : x < b}) = h - 1
        from == IF j = 1 THEN 1 ELSE nth(j - 1) + 1
        to == IF j = Cardinality(B) + 1 THEN Len(toks) ELSE nth(j)
    IN  SubSeq(toks, from, to)
Broken(toks, B) == [j \in 1..(Cardinality(B) + 1) |-> LineOf(toks, B, j)]
Layouts(toks) == {Broken(toks, B) : B \in SUBSET (1..(Len(toks) - 1))}

Bare(doc) == Pieces(doc)
Fenced(doc) == <<Fence>> \o Pieces(doc) \o <<Fence>>
FencedTagged(doc) == <<Fence, Tag>> \o Pieces(doc) \o <<Fence>>

\* blank lines around a text
Padded(text) == << <<>> >> \o text \o << <<>> >>

Payloads == Interpretations \ {NonObject("none")}

\* a failed request, and every payload on one line
PlainResponses ==
    {Reply("error", Empty)}
    \cup {Reply("ok", <<Bare(doc)>>) : doc \in Payloads}

\* one payload in every line layout, bare and fenced, padded and truncated
LaidOutResponses ==
    {Reply("ok", text) :
            text \in Layouts(Bare(Scenario1)) \cup Layouts(Fenced(Scenario1))
                     \cup Layouts(FencedTagged(Scenario1))}
    \cup {Reply("ok", Padded(text)) :
            text \in {<<Bare(Scenario1)>>,
                      << <<Fence, Tag>>, Bare(Scenario1), <<Fence>> >>}}
    \cup {Reply("ok", << <<Piece(Scenario1, 1)>> >>)}

Responses == PlainResponses \cup LaidOutResponses

---------------------------------------------------------------------------
(* The Entity Store on its own: resolve(kind, name) called directly        *)

Entry(kind, key) ==
    [key |-> key, val |-> user_function(kind, key, GoodAnswer(kind)).ret]

\* the store after a session has resolved Str(1) and then maxsize - 1 other
\* names of kind w, all found
WarmKeys == [i \in 1..maxsize |-> IF i = 1 THEN Str(1) ELSE Filler(i - 1)]
WarmCache(w) == [i \in 1..maxsize |-> Entry(w, WarmKeys[i])]
WarmRes(w) == [k \in {Str(1)} |-> Entry(w, k).val]

InitSolver ==
    /\ response = NoReply
    /\ interpretation = NonObject("none")
    /\ entities = NoEntities
    /\ out = Failure

\* the program at its first statement
InitBoot ==
    /\ TOKEN \in Tokens
    /\ pc = "boot"
    /\ elapsed = 0
    /\ problems_attempted = 0
    /\ problems_solved = 0
    /\ current_problem = NoProblem
    /\ started = <<>>
    /\ submissions = <<>>
    /\ succeeded = <<>>
    /\ checks = 0
    /\ exit = "running"
    /\ report = "none"

\* the program at its menu, API_TOKEN being set
InitRunner ==
    /\ TOKEN = "secret"
    /\ pc = "idle"
    /\ elapsed = 0
    /\ problems_attempted = 0
    /\ problems_solved = 0
    /\ current_problem = NoProblem
    /\ started = <<>>
    /\ submissions = <<>>
    /\ succeeded = <<>>
    /\ checks = 0
    /\ exit = "running"
    /\ report = "none"

InitCold ==
    /\ cache = [k \in Kinds |-> <<>>]
    /\ lastRes = [k \in Kinds |-> <<>>]
    /\ used = [k \in Kinds |-> <<>>]
    /\ requests = 0
    /\ calls = <<>>

InitWarm(w) ==
    /\ cache = [k \in Kinds |-> IF k = w THEN WarmCache(w) ELSE <<>>]
    /\ lastRes = [k \in Kinds |-> IF k = w THEN WarmRes(w) ELSE <<>>]
    /\ used = [k \in Kinds |-> IF k = w THEN WarmKeys ELSE <<>>]
    /\ requests = 0
    /\ calls = <<>>

InitStore ==
    /\ InitCold \/ \E w \in Kinds : InitWarm(w)
    /\ InitSolver
    /\ InitRunner

\* resolve(kind, name): one call of the kind's decorated look-up
Resolve(kind, key, a) ==
    /\ requests < MaxStoreRequests
    /\ \E S \in {lru_call(Store, kind, key, a)} : SetStore(S)
    /\ UNCHANGED <<solveVars, runVars>>

NextStore == \E kind \in Kinds, key \in StrNames : \E a \in Answers(kind) :
                Resolve(kind, key, a)

SpecStore == InitStore /\ [][NextStore]_vars

---------------------------------------------------------------------------
(* The Problem Solver on its own: solve_problem called as practice mode    *)
(* calls it                                                                *)

SetSolve(r, resp, i) ==
    /\ SetStore(r.S)
    /\ response' = resp
    /\ interpretation' = i
    /\ entities' = r.entities
    /\ out' = r.out

Solve(resp, up) ==
    /\ requests < MaxRequests
    /\ \E i \in {interpret_problem(resp)} :
          \E r \in {solve_problem(Store, i, up)} : SetSolve(r, resp, i)
    /\ UNCHANGED runVars

InitSolve == InitCold /\ InitSolver /\ InitRunner

\* the layouts of the service's text are tried with all sources answering
NextSolve ==
    \/ \E resp \in PlainResponses, up \in Upstreams : Solve(resp, up)
    \/ \E resp \in LaidOutResponses : Solve(resp, Upstream({}, TRUE))

SpecSolve == InitSolve /\ [][NextSolve]_vars

---------------------------------------------------------------------------
(* run_challenge.  Every blocking call (the start request, one             *)
(* solve_problem, one submission) takes one of Durations seconds.          *)

Durations == {0, 1, 87}

Problem(i) == [id |-> i, problem |-> i]

Advance(d) ==
    /\ elapsed + d <= MaxElapsed
    /\ elapsed' = elapsed + d

Crash ==
    /\ pc' = "done"
    /\ exit' = "critical"

\* the module's first statements with the check of TOKEN left out
BootUnchecked ==
    /\ pc = "boot"
    /\ pc' = "idle"
    /\ UNCHANGED <<storeVars, solveVars, TOKEN, elapsed, problems_attempted,
                   problems_solved, current_problem, started, submissions,
                   succeeded, checks, exit, report>>

\* load_dotenv(); TOKEN = os.getenv("API_TOKEN"); if not TOKEN: exit(1);
\* then HEADERS, the session and the menu
Boot ==
    /\ pc = "boot"
    /\ pc' = IF not(TOKEN) THEN "fatal" ELSE "idle"
    /\ UNCHANGED <<storeVars, solveVars, TOKEN, elapsed, problems_attempted,
                   problems_solved, current_problem, started, submissions,
                   succeeded, checks, exit, report>>

\* start_time = time.time(); session.get(.../challenge/start); response.json()
\*   reply = "problem": the body is the first problem
\*   reply = "other":   the body is JSON without 'problem'
\*   reply = "error":   the request or the JSON decoding raised, into the
\*                      outer except
Start(d, reply) ==
    /\ pc = "idle"
    /\ Advance(d)
    /\ CASE reply = "problem" ->
              /\ current_problem' = Problem(1)
              /\ pc' = "check"
              /\ UNCHANGED exit
         [] reply = "other" ->
              /\ current_problem' = NotAProblem
              /\ pc' = "check"
              /\ UNCHANGED exit
         [] reply = "error" ->
              /\ Crash
              /\ UNCHANGED current_problem
    /\ UNCHANGED <<storeVars, solveVars, TOKEN, problems_attempted,
                   problems_solved, started, submissions, succeeded, checks,
                   report>>

\* the loop condition with <= in place of <
LoopCheckLate ==
    /\ pc = "check"
    /\ checks' = checks + 1
    /\ IF elapsed <= StopAfter
       THEN /\ problems_attempted' = problems_attempted + 1
            /\ pc' = "solving"
            /\ UNCHANGED exit
       ELSE /\ pc' = "report"
            /\ exit' = "deadline"
            /\ UNCHANGED problems_attempted
    /\ UNCHANGED <<storeVars, solveVars, TOKEN, elapsed, problems_solved,
                   current_problem, started, submissions, succeeded, report>>

\* while time.time() - start_time < 175: problems_attempted += 1
LoopCheck ==
    /\ pc = "check"
    /\ checks' = checks + 1
    /\ IF elapsed < StopAfter
       THEN /\ problems_attempted' = problems_attempted + 1
            /\ pc' = "solving"
            /\ UNCHANGED exit
       ELSE /\ pc' = "report"
            /\ exit' = "deadline"
            /\ UNCHANGED problems_attempted
    /\ UNCHANGED <<storeVars, solveVars, TOKEN, elapsed, problems_solved,
                   current_problem, started, submissions, succeeded, report>>

\* answer = solve_problem(current_problem['problem'], verbose=False)
\* if answer is None: answer = 0
\* An exception leaving solve_problem is caught by the outer except only,
\* and so is the KeyError of current_problem['problem'].
SolveStep(resp, up, d) ==
    /\ pc = "solving"
    /\ Advance(d)
    /\ IF current_problem = NotAProblem
       THEN /\ Crash
            /\ UNCHANGED <<storeVars, solveVars, started>>
       ELSE /\ \E i \in {interpret_problem(resp)} :
                  \E r \in {solve_problem(Store, i, up)} :
                      SetSolve(r, resp, i)
            /\ started' = Append(started, current_problem.problem)
            /\ IF out'.t = "raise"
               THEN Crash
               ELSE /\ pc' = "submitting"
                    /\ UNCHANGED exit
    /\ UNCHANGED <<TOKEN, problems_attempted, problems_solved, current_problem,
                   submissions, succeeded, checks, report>>

answer == IF out.t = "num" THEN out.v ELSE Frac(0, 1)

\* a submission that goes on with the problem it has when the reply carries
\* the next one
SubmitKeepsProblem(reply, d) ==
    /\ pc = "submitting"
    /\ Advance(d)
    /\ submissions' = Append(submissions,
                             [problem_id |-> current_problem.id,
                              answer |-> answer])
    /\ succeeded' = Append(succeeded, out.t = "num")
    /\ CASE reply = "next" ->
              /\ current_problem.id < MaxProblems
              /\ problems_solved' = problems_solved + 1
              /\ pc' = "check"
              /\ UNCHANGED <<exit, current_problem>>
         [] reply = "terminal" ->
              /\ pc' = "report"
              /\ exit' = "terminal"
              /\ UNCHANGED <<problems_solved, current_problem>>
         [] reply = "error" ->
              /\ pc' = "report"
              /\ exit' = "submit_error"
              /\ UNCHANGED <<problems_solved, current_problem>>
    /\ UNCHANGED <<storeVars, solveVars, TOKEN, problems_attempted, started,
                   checks, report>>

\* a submission that counts a reply without a next problem as solved
SubmitCountsEveryReply(reply, d) ==
    /\ pc = "submitting"
    /\ Advance(d)
    /\ submissions' = Append(submissions,
                             [problem_id |-> current_problem.id,
                              answer |-> answer])
    /\ succeeded' = Append(succeeded, out.t = "num")
    /\ CASE reply = "next" ->
              /\ current_problem.id < MaxProblems
              /\ problems_solved' = problems_solved + 1
              /\ current_problem' = Problem(current_problem.id + 1)
              /\ pc' = "check"
              /\ UNCHANGED exit
         [] reply = "terminal" ->
              /\ pc' = "report"
              /\ exit' = "terminal"
              /\ problems_solved' = problems_solved + 1
              /\ UNCHANGED current_problem
         [] reply = "error" ->
              /\ pc' = "report"
              /\ exit' = "submit_error"
              /\ UNCHANGED <<problems_solved, current_problem>>
    /\ UNCHANGED <<storeVars, solveVars, TOKEN, problems_attempted, started,
                   checks, report>>

\* session.post(.../challenge/solution, json={problem_id, answer});
\* result = response.json()
\*   reply = "next":     the body carries the next problem
\*   reply = "terminal": the body carries no 'problem'
\*   reply = "error":    the request or the JSON decoding raised
Submit(reply, d) ==
    /\ pc = "submitting"
    /\ Advance(d)
    /\ submissions' = Append(submissions,
                             [problem_id |-> current_problem.id,
                              answer |-> answer])
    /\ succeeded' = Append(succeeded, out.t = "num")
    /\ CASE reply = "next" ->
              /\ current_problem.id < MaxProblems
              /\ problems_solved' = problems_solved + 1
              /\ current_problem' = Problem(current_problem.id + 1)
              /\ pc' = "check"
              /\ UNCHANGED exit
         [] reply = "terminal" ->
              /\ pc' = "report"
              /\ exit' = "terminal"
              /\ UNCHANGED <<problems_solved, current_problem>>
         [] reply = "error" ->
              /\ pc' = "report"
              /\ exit' = "submit_error"
              /\ UNCHANGED <<problems_solved, current_problem>>
    /\ UNCHANGED <<storeVars, solveVars, TOKEN, problems_attempted, started,
                   checks, report>>

\* elapsed = int(time.time() - start_time), the three statistics lines.
\* problems_solved/(elapsed/60) raises ZeroDivisionError when elapsed is 0,
\* after the counts were printed; the outer except catches it.
Report ==
    /\ pc = "report"
    /\ pc' = "done"
    /\ report' = IF elapsed = 0 THEN "counts" ELSE "full"
    /\ UNCHANGED <<storeVars, solveVars, TOKEN, elapsed, problems_attempted,
                   problems_solved, current_problem, started, submissions,
                   succeeded, checks, exit>>

RunInterpretations ==
    {NonObject("array"), Scenario1,
     Object(List(<<n1>>), Missing, Missing, Attr("character", 1, "mass"))}

RunResponses ==
    {Reply("error", Empty)}
    \cup {Reply("ok", <<Bare(doc)>>) : doc \in RunInterpretations}

RunUpstreams == {Upstream({}, TRUE), Upstream({n1}, TRUE)}

InitRun == InitCold /\ InitSolver /\ InitBoot

NextRun ==
    \/ Boot
    \/ \E d \in Durations, reply \in {"problem", "other", "error"} :
          Start(d, reply)
    \/ LoopCheck
    \/ \E resp \in RunResponses, up \in RunUpstreams, d \in Durations :
          SolveStep(resp, up, d)
    \/ \E reply \in {"next", "terminal", "error"}, d \in Durations :
          Submit(reply, d)
    \/ Report

SpecRun == InitRun /\ [][NextRun]_vars

\* every request returns or times out (timeout=10 and timeout=15, at most
\* three retries), so a step that can be taken is taken
SpecRunFair == SpecRun /\ WF_vars(NextRun)

---------------------------------------------------------------------------
(* Properties of the Entity Store (specification SpecStore)                *)

Calls == {calls[i] : i \in DOMAIN calls}
IsResolved(r) == r # Never /\ r # None

\* C1: a NotFound result is never cached: a look-up of a name whose
\* previous look-up returned NotFound issues a new upstream request, and
\* returns the entity when the upstream now answers with a usable match.
C1_NotFoundNeverCached ==
    \A c \in Calls :
        c.prev = None =>
            /\ c.reqs > 0
            /\ c.usable => IsEntity(c.ret)

\* C7, as claimed: a name that resolved returns the same values on every
\* later look-up, without an upstream request, whatever was looked up in
\* between.
C7_RepeatAlwaysHits ==
    \A c \in Calls :
        IsResolved(c.prev) => c.ret = c.prev /\ c.reqs = 0

\* C7, amended: a name whose latest look-up resolved returns the same
\* values on the next look-up, without an upstream request, provided fewer
\* than maxsize distinct other names of its kind were looked up in between.
C7_RepeatHitsUntilEvicted ==
    \A c \in Calls :
        IsResolved(c.prev) /\ c.others < maxsize =>
            c.ret = c.prev /\ c.reqs = 0

\* a repeated look-up answered from the cache after maxsize - 1 other names
C7_Witness ==
    \E c \in Calls :
        /\ IsResolved(c.prev) /\ c.others = maxsize - 1
        /\ c.hit /\ c.ret = c.prev /\ c.reqs = 0

C8_Bounded ==
    /\ \A k \in Kinds : Len(cache[k]) <= maxsize
    /\ \A c \in Calls :
          c.evicted = IF ~c.hit /\ c.full THEN {c.oldest} ELSE {}

C8_OwnKindOnly ==
    \A k \in Kinds :
        cache'[k] # cache[k] => \E i \in DOMAIN calls' : calls'[i].kind = k

\* C8: every kind's cache holds at most maxsize entries; an insertion into
\* a full cache evicts exactly the least recently used entry of that kind,
\* nothing is evicted otherwise, and a look-up changes no other kind's cache.
C8_PerKindLru == []C8_Bounded /\ [][C8_OwnKindOnly]_vars

\* an insertion into a full cache evicted that kind's least recently used
\* entry while another kind's cache held entries
C8_Witness ==
    \E c \in Calls :
        /\ ~c.hit /\ c.full /\ c.evicted = {c.oldest}
        /\ Len(cache[c.kind]) = maxsize
        /\ \E k \in Kinds \ {c.kind} : cache[k] # <<>>

\* the number a numeric field stands for: 0 for "unknown", 1000 for "1,000"
Normal(x) == IF x.form = "unknown" THEN 0 ELSE x.v

\* C13: whenever the upstream delivers a match whose numeric fields are
\* numeric strings, "unknown" or comma-grouped numeric strings, the look-up
\* returns the entity (not NotFound), with "unknown" read as 0 and "1,000"
\* as 1000.0, for every kind and every numeric field.
C13_NormalizesEveryField ==
    \A c \in Calls :
        /\ c.raw # NoRaw
        /\ \A f \in DOMAIN c.raw : c.raw[f].form \in {"num", "unknown", "comma"}
        => /\ IsEntity(c.ret)
           /\ \A f \in DOMAIN c.raw : c.ret[f] = Normal(c.raw[f])

---------------------------------------------------------------------------
(* Properties of the Problem Solver (specification SpecSolve)              *)

CallsOf(kind) == SelectSeq(calls, LAMBDA c : c.kind = kind)

FieldOf(kind) ==
    CASE kind = "character" -> interpretation.characters
      [] kind = "planet" -> interpretation.planets
      [] kind = "pokemon" -> interpretation.pokemon

\* the aliases whose name was looked up and found, read off the look-ups
ResolvedAliases ==
    {a \in [kind : Kinds, i : 1..Len(calls)] :
        /\ a.i <= Len(CallsOf(a.kind))
        /\ IsEntity(CallsOf(a.kind)[a.i].ret)}

\* an Intent as the translator's contract describes it: an object whose
\* lists, where present, hold strings
WellFormed(i) ==
    /\ i.t = "object"
    /\ \A f \in {i.characters, i.planets, i.pokemon} :
          /\ f.t \in {"missing", "list"}
          /\ \A j \in DOMAIN f.items : f.items[j].t = "str"

\* arithmetic over numeric attributes of the aliases' kinds, dividing only
\* by non-zero literals: evaluation can fail only on an unbound alias
RECURSIVE Arithmetic(_)
Arithmetic(e) ==
    CASE e.op = "lit" -> TRUE
      [] e.op = "attr" -> e.attr \in NumericAttrs(e.alias.kind)
      [] e.op = "bin" ->
            /\ Arithmetic(e.l) /\ Arithmetic(e.r)
            /\ e.f = "/" => e.r.op = "lit" /\ e.r.v # 0
      [] OTHER -> FALSE

\* C9: for a well-formed Intent with an arithmetic expression, a name that
\* fails to resolve does not abort the solve (every listed name is still
\* looked up); the solve is a Failure exactly when the expression mentions
\* an alias that is not bound to a resolved name, and a number otherwise.
C9_PartialFailure ==
    WellFormed(interpretation) /\ Arithmetic(interpretation.operation) =>
        /\ \A k \in Kinds : Len(CallsOf(k)) = Len(FieldOf(k).items)
        /\ out.t \in {"num", "failure"}
        /\ out.t = "failure" <=>
              ~(AliasesOf(interpretation.operation) \subseteq ResolvedAliases)

\* a solve that returned a number although one of its names did not resolve
C9_Witness ==
    /\ WellFormed(interpretation) /\ Arithmetic(interpretation.operation)
    /\ \E c \in Calls : ~IsEntity(c.ret)
    /\ AliasesOf(interpretation.operation) # {}
    /\ out.t = "num"

\* C10: the i-th name listed for a kind is looked up i-th and is bound,
\* exactly when it resolves, to the alias <kind><i> with the entity the
\* look-up returned; nothing else is bound.
C10_PositionalAliases ==
    interpretation.t = "object" =>
        /\ \A k \in Kinds : \A i \in 1..Len(CallsOf(k)) :
              /\ CallsOf(k)[i].key = FieldOf(k).items[i]
              /\ IF IsEntity(CallsOf(k)[i].ret)
                 THEN /\ Alias(k, i) \in DOMAIN entities
                      /\ entities[Alias(k, i)] = CallsOf(k)[i].ret
                 ELSE Alias(k, i) \notin DOMAIN entities
        /\ \A a \in DOMAIN entities : a.i \in 1..Len(CallsOf(a.kind))

\* the first character did not resolve and the second is bound as character2
C10_Witness ==
    /\ interpretation.t = "object"
    /\ Len(CallsOf("character")) = 2
    /\ ~IsEntity(CallsOf("character")[1].ret)
    /\ DOMAIN entities = {Alias("character", 2)}
    /\ entities[Alias("character", 2)] = CallsOf("character")[2].ret

\* the interpretations with which solve_problem gets as far as its
\* evaluation step: the three name loops run over lists of hashable names
ReachesEvaluation(i) ==
    /\ i.t = "object"
    /\ \A f \in {i.characters, i.planets, i.pokemon} :
          /\ f.t \in {"missing", "list"}
          /\ \A j \in DOMAIN f.items : Hashable(f.items[j])

\* the attributes the translator is told about, per kind
Schema(kind) ==
    NumericAttrs(kind) \cup (IF kind = "character" THEN {"homeworld"} ELSE {})

\* a call, an attribute of an attribute value, a free name, or an attribute
\* outside the alias's schema somewhere in the expression
RECURSIVE Disallowed(_)
Disallowed(e) ==
    CASE e.op = "attr" -> e.attr \notin Schema(e.alias.kind)
      [] e.op = "bin" -> Disallowed(e.l) \/ Disallowed(e.r)
      [] e.op \in {"name", "getattr", "call"} -> TRUE
      [] OTHER -> FALSE

\* C11: an expression with disallowed syntax (a call, an attribute outside
\* the alias's schema, an attribute of an attribute value) evaluates to
\* Failure: no number is returned and no callable is invoked.
C11_DisallowedSyntaxFails ==
    ReachesEvaluation(interpretation)
    /\ Disallowed(interpretation.operation) =>
        /\ out.t = "failure"
        /\ ~invokes(interpretation.operation, entities)

\* a division whose divisor evaluates to zero
RECURSIVE DividesByZero(_, _)
DividesByZero(e, namespace) ==
    e.op = "bin" /\
        \/ DividesByZero(e.l, namespace)
        \/ DividesByZero(e.r, namespace)
        \/ /\ e.f = "/"
           /\ eval(e.l, namespace).ok
           /\ eval(e.r, namespace).ok
           /\ eval(e.r, namespace).v = Frac(0, 1)

UnboundAlias == ~(AliasesOf(interpretation.operation) \subseteq DOMAIN entities)

\* C12: when the expression mentions an alias that is not bound, divides by
\* zero or is malformed, the evaluation step ends with Failure: no number
\* and no exception leaves it.
C12_FaultsAreFailures ==
    ReachesEvaluation(interpretation)
    /\ interpretation.operation # NoOperation
    /\ \/ UnboundAlias
       \/ DividesByZero(interpretation.operation, entities)
       \/ interpretation.operation = Malformed
    => out = Failure

\* a division by zero between two bound entities ended in Failure
C12_Witness ==
    /\ ReachesEvaluation(interpretation)
    /\ interpretation.operation # NoOperation
    /\ ~UnboundAlias
    /\ DividesByZero(interpretation.operation, entities)
    /\ out = Failure

---------------------------------------------------------------------------
(* Properties of the Intent Translator (specification SpecSolve)           *)

\* a JSON object carrying the three entity lists and the expression
RequiredFields(i) ==
    /\ i.t = "object"
    /\ \A f \in {i.characters, i.planets, i.pokemon} : f.t = "list"
    /\ i.operation # NoOperation

\* C14: interpret_problem returns None unless the service's text is a JSON
\* object with the entity lists and the expression, so nothing else
\* reaches the rest of solve_problem.
C14_OnlyIntentsReturned ==
    interpretation.t # "none" => RequiredFields(interpretation)

\* the text is the document bare, or between an opening fence (with or
\* without the tag) and a closing fence, in any line layout
Wraps(text, doc) == Flatten(text) \in {Bare(doc), Fenced(doc), FencedTagged(doc)}

\* C15: a valid Intent payload is translated to the same Intent whether the
\* service sends it bare or inside a fenced code block, with or without a
\* language tag, for every way the response is broken into lines.
C15_FenceTolerant ==
    \A doc \in Payloads :
        /\ RequiredFields(doc)
        /\ response.status = "ok"
        /\ Wraps(response.content, doc)
        => interpretation = doc

---------------------------------------------------------------------------
(* Properties of the Challenge Runner (specification SpecRun)              *)

\* C2: solve_problem ends with a number or with Failure, never with an
\* exception, so solving never ends the session.
C2_SolveNeverRaises == out.t \in {"num", "failure"}

Zero == Frac(0, 1)

\* C3: once an iteration is over, every problem handed to solve_problem has
\* been submitted exactly once, with its own id, and with 0 when the solve
\* was a Failure.
C3_EverySolveSubmitted ==
    pc \in {"check", "report", "done"} =>
        /\ Len(submissions) = Len(started)
        /\ \A i \in DOMAIN submissions :
              /\ submissions[i].problem_id = started[i]
              /\ ~succeeded[i] => submissions[i].answer = Zero

\* C4: problems_solved is the number of submitted problems whose solve
\* succeeded.
C4_SolvedCountsSuccesses ==
    problems_solved = Cardinality({i \in DOMAIN succeeded : succeeded[i]})

C5_Step ==
    /\ pc' = "solving" /\ pc # "solving" =>
          pc = "check" /\ elapsed < StopAfter
    /\ exit' = "deadline" /\ exit # "deadline" =>
          pc = "check" /\ elapsed >= StopAfter
    /\ pc \in {"solving", "submitting"} => exit' # "deadline"

C5_OncePerIteration ==
    checks = problems_attempted + (IF exit = "deadline" THEN 1 ELSE 0)

\* C5: the deadline is evaluated once per iteration, by the loop condition:
\* solving starts only from that check and only with elapsed < 175, the
\* loop ends by the deadline only there, and a problem in flight is never
\* cut off by the deadline.
C5_DeadlineAtTop == []C5_OncePerIteration /\ [][C5_Step]_vars

\* a problem was submitted after the 175 s mark, and the loop then ended on
\* the reply, not on the deadline
C5_Witness ==
    /\ pc = "report" /\ exit = "terminal"
    /\ elapsed >= StopAfter
    /\ Len(submissions) = problems_attempted

\* C6: however the loop ends, the statistics block is printed in full:
\* attempted, solved and throughput.
C6_StatisticsReported ==
    pc = "done" /\ exit \in {"deadline", "terminal", "submit_error"} =>
        report = "full"

\* the while loop has been entered or left
InLoop == pc \in {"check", "solving", "submitting"}
LoopOver == pc \in {"report", "done"} /\ checks > 0

C16_EndsByReplyOrDeadline ==
    LoopOver => exit \in {"terminal", "submit_error", "deadline"}

C16_TerminalIsFinal ==
    exit' = "terminal" =>
        /\ pc' \in {"report", "done"}
        /\ exit = "terminal" =>
              started' = started /\ submissions' = submissions

\* C16: once started, the runner reaches Done; the loop ends by a reply
\* without a next problem, by a failed submission or by the deadline check
\* and in no other way; after a reply without a next problem nothing more
\* is solved or submitted.
C16_AlwaysReachesDone ==
    /\ (InLoop \/ pc = "report") ~> (pc = "done")
    /\ []C16_EndsByReplyOrDeadline
    /\ [][C16_TerminalIsFinal]_vars

\* C17: with API_TOKEN missing or empty the program ends at its first
\* statements: no entity look-up, no translation, no session start and no
\* submission is ever made.
C17_NoTokenNoNetwork ==
    not(TOKEN) =>
        /\ pc \in {"boot", "fatal"}
        /\ requests = 0 /\ calls = <<>>
        /\ response = NoReply
        /\ current_problem = NoProblem /\ elapsed = 0
        /\ submissions = <<>>

\* the program ended with the configuration error
C17_Witness == not(TOKEN) /\ pc = "fatal"

C18_InOrder ==
    /\ \A i \in DOMAIN started : started[i] = Problem(i).problem
    /\ \A i \in DOMAIN submissions : submissions[i].problem_id = Problem(i).id
    /\ Len(submissions) <= Len(started)
    /\ Len(started) <= Len(submissions) + 1

C18_Step ==
    /\ Len(started') > Len(started) =>
          /\ started' = Append(started, current_problem.problem)
          /\ Len(started) = Len(submissions)
    /\ Len(submissions') > Len(submissions) =>
          /\ submissions'[Len(submissions')].problem_id = current_problem.id
          /\ started[Len(started)] = current_problem.problem
          /\ Len(started) = Len(submissions')
    /\ current_problem' # current_problem =>
          /\ current_problem = NoProblem \/ Len(submissions') > Len(submissions)
          /\ current_problem' \in {NotAProblem, Problem(Len(submissions') + 1)}

\* C18: the i-th problem solved and the i-th submission are the i-th
\* problem the service handed out; every submission carries the id of the
\* problem received last, whose text was the one just solved; a problem is
\* replaced only by the reply to its own submission.
C18_StrictlySequential == []C18_InOrder /\ [][C18_Step]_vars

\* three problems were solved and submitted one after the other
C18_Witness ==
    /\ Len(submissions) = MaxProblems
    /\ \A i \in DOMAIN submissions : submissions[i].problem_id = Problem(i).id
    /\ started[MaxProblems] = Problem(MaxProblems).problem

\* C19: 0 <= solved <= attempted <= solved + 1 throughout; solved =
\* attempted when the loop ends by the deadline check, solved =
\* attempted - 1 when it ends by a reply without a next problem or by a
\* failed submission.
C19_Counters ==
    /\ 0 <= problems_solved
    /\ problems_solved <= problems_attempted
    /\ problems_attempted - problems_solved <= 1
    /\ exit = "deadline" => problems_solved = problems_attempted
    /\ exit \in {"terminal", "submit_error"} =>
          problems_solved = problems_attempted - 1

\* the loop ended by the deadline check after two solved problems
C19_Witness ==
    /\ exit = "deadline"
    /\ problems_attempted = 2 /\ problems_solved = 2

====
